---- MODULE Spec2Model ----
(***************************************************************************)
(* Funding-rate trackers: bybit_multi_funding_tracker.py ("multi") and     *)
(* bybit_negative_funding_tracker.py ("negative").                         *)
(*                                                                         *)
(* Each component of the two scripts is a state machine over one record    *)
(* variable; a specification runs one component and leaves the others      *)
(* idle.  Funding rates are integers in units of 1e-4 (-15 is -0.0015),    *)
(* market caps and floors are integers in units of 1e8 USD.                *)
(***************************************************************************)
EXTENDS Integers, Sequences, FiniteSets, TLC

VARIABLES http, catalog, batch, resolver, neg, multi

vars == <<http, catalog, batch, resolver, neg, multi>>

Idle == [pc |-> "idle"]

(***************************************************************************)
(* Generic helpers                                                         *)
(***************************************************************************)
Min(a, b) == IF a <= b THEN a ELSE b

\* Sequences over S of length 0..n
SeqUpTo(S, n) == UNION {[1..k -> S] : k \in 0..n}

(***************************************************************************)
(* _http_get                                                               *)
(***************************************************************************)
MaxAttempts == 3
BackoffBase == 30
ShortDelay == 2

\* What one requests.get can produce: an HTTP status, or a transport
\* exception (timeout, connection error).
Statuses == {200, 429, 404, 500}
Timeout == [kind |-> "exception", status |-> 0]
Http(code) == [kind |-> "http", status |-> code]
Responses == {Http(c) : c \in Statuses} \cup {Timeout}
Payloads == {"p1", "p2"}
EmptyDict == "{}"

\* r.raise_for_status(): raises for a 4xx/5xx status
RaisesForStatus(status) == status >= 400

\* The try block raises on this response (transport exception or error status)
Raises(r) == r.kind = "exception" \/ RaisesForStatus(r.status)

HttpInit ==
    http \in {[variant |-> v, pc |-> "request", attempt |-> 0, log |-> <<>>,
               sleeps |-> <<>>, result |-> "none"] : v \in {"multi", "negative"}}

\* multi: one iteration of `for attempt in range(3)` that gets a 429
MultiAttempt429 ==
    /\ http.variant = "multi" /\ http.pc = "request"
    /\ http.attempt < MaxAttempts
    /\ http' = [http EXCEPT !.log = Append(@, Http(429)),
                            !.sleeps = Append(@, (http.attempt + 1) * BackoffBase),
                            !.attempt = @ + 1]
    /\ UNCHANGED <<catalog, batch, resolver, neg, multi>>

\* multi: one iteration that raises inside the try block (transport
\* exception, or raise_for_status on a non-429 error status)
MultiAttemptError ==
    /\ http.variant = "multi" /\ http.pc = "request"
    /\ http.attempt < MaxAttempts
    /\ \E r \in Responses \ {Http(429)} :
         /\ Raises(r)
         /\ IF http.attempt = MaxAttempts - 1
              THEN http' = [http EXCEPT !.log = Append(@, r), !.pc = "raised"]
              ELSE http' = [http EXCEPT !.log = Append(@, r),
                                        !.sleeps = Append(@, ShortDelay),
                                        !.attempt = @ + 1]
    /\ UNCHANGED <<catalog, batch, resolver, neg, multi>>

\* multi: one iteration that gets a 2xx and returns r.json()
MultiAttemptOk ==
    /\ http.variant = "multi" /\ http.pc = "request"
    /\ http.attempt < MaxAttempts
    /\ ~Raises(Http(200))
    /\ \E p \in Payloads :
         http' = [http EXCEPT !.log = Append(@, Http(200)), !.pc = "returned", !.result = p]
    /\ UNCHANGED <<catalog, batch, resolver, neg, multi>>

\* multi: the loop ran out (the last attempt was a 429): `return {}`
MultiLoopExit ==
    /\ http.variant = "multi" /\ http.pc = "request"
    /\ http.attempt = MaxAttempts
    /\ http' = [http EXCEPT !.pc = "returned", !.result = EmptyDict]
    /\ UNCHANGED <<catalog, batch, resolver, neg, multi>>

\* negative: a single request, raise_for_status, return r.json()
NegHttpGet ==
    /\ http.variant = "negative" /\ http.pc = "request"
    /\ \E r \in Responses :
         IF ~Raises(r)
           THEN \E p \in Payloads :
                  http' = [http EXCEPT !.log = Append(@, r), !.attempt = @ + 1,
                                       !.pc = "returned", !.result = p]
           ELSE http' = [http EXCEPT !.log = Append(@, r), !.attempt = @ + 1,
                                     !.pc = "raised"]
    /\ UNCHANGED <<catalog, batch, resolver, neg, multi>>

HttpNext ==
    \/ MultiAttempt429
    \/ MultiAttemptError
    \/ MultiAttemptOk
    \/ MultiLoopExit
    \/ NegHttpGet

InitFetch ==
    /\ HttpInit
    /\ catalog = Idle /\ batch = Idle /\ resolver = Idle /\ neg = Idle /\ multi = Idle

SpecFetch == InitFetch /\ [][HttpNext]_vars

\* An attempt that did not deliver a response body
FailedAttempt(r) == r = Http(429) \/ Raises(r)

\* C8: a call makes at most 3 request attempts, and a call all of whose
\* attempts failed (429 or any other failure, in any mix) ends by raising:
\* it never returns a value as if the fetch had succeeded.
C8_ExhaustedRetriesSurfaceError ==
    /\ Len(http.log) <= 3
    /\ http.pc = "returned" => \E i \in 1..Len(http.log) : ~FailedAttempt(http.log[i])

\* C9: a non-2xx response other than 429 is surfaced at once: it is the last
\* request attempt of the call, no retry sleep follows it, and the call raises.
C9_NonRetryableSurfacedImmediately ==
    \A i \in 1..Len(http.log) :
       (http.log[i].kind = "http" /\ RaisesForStatus(http.log[i].status)
          /\ http.log[i].status # 429)
         => /\ Len(http.log) = i
            /\ Len(http.sleeps) < i
            /\ http.pc = "raised"

(***************************************************************************)
(* bybit_get_all_linear_instruments                                        *)
(***************************************************************************)
MaxPages == 3
MaxPageLen == 2

\* Opaque continuation cursors; "" stands for an absent or empty
\* nextPageCursor (both falsy).  Cursors[j] is the cursor that names page j.
Cursors == <<"c1", "c2", "c3", "c4", "c5", "c6">>
NoCursor == ""
Truthy(c) == c # ""

\* Page j of a k-page source holding n instruments: the instruments are
\* named <<j, 1>> .. <<j, n>>, and only the last page carries no cursor.
Page(j, k, n, hasList) ==
    [hasList |-> hasList,
     list |-> IF hasList THEN [i \in 1..n |-> <<j, i>>] ELSE <<>>,
     nextPageCursor |-> IF j < k THEN Cursors[j + 1] ELSE NoCursor]

Sources ==
    UNION {
      { [j \in 1..k |-> Page(j, k, sizes[j], has[j])] :
          sizes \in [1..k -> 0..MaxPageLen], has \in [1..k -> BOOLEAN] }
      : k \in 1..MaxPages }

\* The page the source serves for the cursor sent with the request
Serve(pages, cursor) ==
    IF ~Truthy(cursor) THEN pages[1]
    ELSE pages[CHOOSE j \in 1..Len(pages) : Cursors[j] = cursor]

\* `if "result" in resp and "list" in resp["result"]: out.extend(...)`
ExtendSkipsLastPage(out, resp) ==
    IF resp.hasList /\ Truthy(resp.nextPageCursor) THEN out \o resp.list ELSE out

Extend(out, resp) == IF resp.hasList THEN out \o resp.list ELSE out

CatalogInit ==
    catalog \in {[pc |-> "fetch", pages |-> src, cursor |-> NoCursor, out |-> <<>>,
                  sent |-> <<>>] : src \in Sources}

\* One iteration of `while True`: request with the current cursor, extend,
\* follow nextPageCursor (then sleep 0.1) or break and return out
CatalogFetchPage ==
    /\ catalog.pc = "fetch"
    /\ LET resp == Serve(catalog.pages, catalog.cursor) IN
         catalog' = [catalog EXCEPT
                       !.sent = Append(@, catalog.cursor),
                       !.out = Extend(@, resp),
                       !.cursor = IF Truthy(resp.nextPageCursor)
                                    THEN resp.nextPageCursor ELSE @,
                       !.pc = IF Truthy(resp.nextPageCursor) THEN "fetch" ELSE "done"]
    /\ UNCHANGED <<http, batch, resolver, neg, multi>>

\* _http_get raises at some page: the exception leaves the loader, no list
\* is returned
CatalogFetchFails ==
    /\ catalog.pc = "fetch"
    /\ catalog' = [catalog EXCEPT !.sent = Append(@, catalog.cursor),
                                  !.out = <<>>, !.pc = "failed"]
    /\ UNCHANGED <<http, batch, resolver, neg, multi>>

CatalogNext ==
    \/ CatalogFetchPage
    \/ CatalogFetchFails

InitCatalog ==
    /\ CatalogInit
    /\ http = Idle /\ batch = Idle /\ resolver = Idle /\ neg = Idle /\ multi = Idle

\* The loop is one thread of control that runs until it returns or raises
SpecCatalog == InitCatalog /\ [][CatalogNext]_vars /\ WF_vars(CatalogNext)

RECURSIVE Flatten(_)
Flatten(pages) ==
    IF pages = <<>> THEN <<>>
    ELSE Flatten(SubSeq(pages, 1, Len(pages) - 1)) \o pages[Len(pages)].list

\* State part of C5: never more than k fetches; the first request carries no
\* cursor and request i+1 carries the cursor page i returned; on return the
\* loader made exactly k fetches and holds the pages' instruments in page order.
CatalogFollowsCursor ==
    LET k == Len(catalog.pages) IN
      catalog.pc # "idle" =>
        /\ Len(catalog.sent) <= k
        /\ \A i \in 1..Len(catalog.sent) :
             catalog.sent[i] = IF i = 1 THEN NoCursor
                               ELSE catalog.pages[i - 1].nextPageCursor
        /\ catalog.pc = "done" =>
             /\ Len(catalog.sent) = k
             /\ catalog.out = Flatten(catalog.pages)

\* C5: the catalog loader follows the continuation cursor to completion: for
\* a k-page source it issues exactly k page fetches, each after the first
\* carrying the previous page's cursor, terminates, and returns the
\* concatenation of the k pages in page order.
C5_PaginationToCompletion ==
    /\ []CatalogFollowsCursor
    /\ <>(catalog.pc \in {"done", "failed"})

\* Three pages of sizes 2, 2, 1 (the 1000, 1000, 400 case scaled down):
\* 5 instruments after 3 fetches.
C5_Witness ==
    /\ catalog.pc = "done"
    /\ Len(catalog.pages) = 3
    /\ Len(catalog.pages[1].list) = 2
    /\ Len(catalog.pages[2].list) = 2
    /\ Len(catalog.pages[3].list) = 1
    /\ Len(catalog.sent) = 3
    /\ Len(catalog.out) = 5

(***************************************************************************)
(* Batch loaders: bybit_get_funding_rates_batch, bybit_get_tickers_batch,  *)
(* coingecko_get_market_data_batch (negative), get_coingecko_data (multi)  *)
(***************************************************************************)
MaxBatches == 3

FundingBatchSize == 10
TickerBatchSize == 10
CoinGeckoBatchSize == 30
MultiCoinGeckoBatchSize == 250

Loaders == {"funding", "tickers", "coingecko", "multi_coingecko"}

BatchSize(loader) ==
    CASE loader = "funding" -> FundingBatchSize
      [] loader = "tickers" -> TickerBatchSize
      [] loader = "coingecko" -> CoinGeckoBatchSize
      [] loader = "multi_coingecko" -> MultiCoinGeckoBatchSize

\* Numbers of requested keys (symbols or coin ids, numbered 1..n) that give
\* 0..MaxBatches batches, the last one full, one short of full or of one key
KeyCounts(loader) ==
    {0} \cup UNION {{BatchSize(loader) * (b - 1) + 1, BatchSize(loader) * b - 1,
                     BatchSize(loader) * b} : b \in 1..MaxBatches}

\* symbols[i:i + batch_size]
Slice(i, size, n) == (i + 1)..Min(i + size, n)

BatchInit ==
    \E l \in Loaders : \E n \in KeyCounts(l) :
       batch = [loader |-> l, n |-> n, i |-> 0, data |-> {}, served |-> {},
                lost |-> {}, pc |-> "loop"]

\* A batch request that returns the entries of its keys
BatchOk ==
    /\ batch.pc = "loop" /\ batch.i < batch.n
    /\ LET keys == Slice(batch.i, BatchSize(batch.loader), batch.n) IN
         batch' = [batch EXCEPT !.data = @ \cup keys, !.served = @ \cup keys,
                                !.i = @ + BatchSize(batch.loader)]
    /\ UNCHANGED <<http, catalog, resolver, neg, multi>>

\* A batch request on which _http_get raises.  The three loaders of the
\* negative tracker catch it, print and go on; get_coingecko_data has no
\* try block and main() has none either, so the exception ends the run.
BatchRaises ==
    /\ batch.pc = "loop" /\ batch.i < batch.n
    /\ LET keys == Slice(batch.i, BatchSize(batch.loader), batch.n) IN
         IF batch.loader = "multi_coingecko"
           THEN batch' = [batch EXCEPT !.lost = @ \cup keys, !.pc = "aborted"]
           ELSE batch' = [batch EXCEPT !.lost = @ \cup keys,
                                       !.i = @ + BatchSize(batch.loader)]
    /\ UNCHANGED <<http, catalog, resolver, neg, multi>>

\* multi: _http_get gave up on 429s and returned {}: `for coin in data`
\* adds nothing and the loop goes on
BatchEmptyDict ==
    /\ batch.pc = "loop" /\ batch.i < batch.n
    /\ batch.loader = "multi_coingecko"
    /\ LET keys == Slice(batch.i, BatchSize(batch.loader), batch.n) IN
         batch' = [batch EXCEPT !.lost = @ \cup keys,
                                !.i = @ + BatchSize(batch.loader)]
    /\ UNCHANGED <<http, catalog, resolver, neg, multi>>

\* The range is exhausted: the loader returns its mapping and main() goes on
\* to the ranking
BatchReturn ==
    /\ batch.pc = "loop" /\ batch.i >= batch.n
    /\ batch' = [batch EXCEPT !.pc = "returned"]
    /\ UNCHANGED <<http, catalog, resolver, neg, multi>>

BatchNext ==
    \/ BatchOk
    \/ BatchRaises
    \/ BatchEmptyDict
    \/ BatchReturn

InitBatch ==
    /\ BatchInit
    /\ http = Idle /\ catalog = Idle /\ resolver = Idle /\ neg = Idle /\ multi = Idle

SpecBatch == InitBatch /\ [][BatchNext]_vars

\* C6: a failed funding, ticker or market-cap batch request is non-fatal:
\* the run is never aborted by it, and the data set holds exactly the keys of
\* the batches that were served, before and after the failed ones.
C6_BatchFailureNonFatal ==
    batch.pc # "idle" =>
      /\ batch.pc # "aborted"
      /\ batch.data = batch.served
      /\ batch.pc = "returned" => batch.served \cup batch.lost = 1..batch.n

(***************************************************************************)
(* Identifier resolution: coingecko_get_market_data_batch lines 122-127    *)
(* (negative) and get_coingecko_data lines 42-46 (multi)                   *)
(***************************************************************************)
MaxDir == 3

\* Tickers as the directory and the exchange spell them
LowerTickers == {"aaa", "bbb"}

\* str.lower()
Lower(t) ==
    CASE t \in {"aaa", "AAA", "Aaa"} -> "aaa"
      [] t \in {"bbb", "BBB"} -> "bbb"
      [] t \in {"ccc", "CCC"} -> "ccc"
      [] t \in {"ddd", "DDD"} -> "ddd"

\* str.upper()
Upper(t) ==
    CASE t \in {"aaa", "AAA", "Aaa"} -> "AAA"
      [] t \in {"bbb", "BBB"} -> "BBB"
      [] t \in {"ccc", "CCC"} -> "CCC"
      [] t \in {"ddd", "DDD"} -> "DDD"

\* Provider identifiers are 1..MaxDir; 0 stands for "no entry in the dict"
NoId == 0
CoinIds == 1..MaxDir

\* /coins/list: up to MaxDir entries with distinct ids, several of which may
\* carry the same ticker (in any spelling)
Directories ==
    {d \in SeqUpTo([symbol : {"aaa", "AAA", "bbb"}, id : CoinIds], MaxDir) :
       \A i, j \in 1..Len(d) : i # j => d[i].id # d[j].id}

\* symbol_to_id[symbol] = coin["id"] with first-match-wins semantics
AssignKeepFirst(m, key, id) == IF m[key] # NoId THEN m ELSE [m EXCEPT ![key] = id]

\* symbol_to_id[symbol] = coin["id"]  (a dict store replaces an earlier value)
Assign(m, key, id) == [m EXCEPT ![key] = id]

ResolverInit ==
    \E v \in {"negative", "multi"} : \E d \in Directories :
      \E req \in SUBSET (IF v = "negative" THEN {"aaa", "bbb"} ELSE {"AAA", "BBB"}) :
        resolver = [variant |-> v, coins_list |-> d, symbols |-> req, idx |-> 1,
                    symbol_to_id |-> [t \in LowerTickers |-> NoId], pc |-> "scan"]

\* negative: one iteration of `for coin in coins_list`; main() passes the
\* requested tickers already lowercased
ResolveScanNegative ==
    /\ resolver.pc = "scan" /\ resolver.variant = "negative"
    /\ resolver.idx <= Len(resolver.coins_list)
    /\ LET coin == resolver.coins_list[resolver.idx]
           symbol == Lower(coin.symbol)
       IN  resolver' = [resolver EXCEPT
                          !.symbol_to_id = IF symbol \in resolver.symbols
                                             THEN Assign(@, symbol, coin.id) ELSE @,
                          !.idx = @ + 1]
    /\ UNCHANGED <<http, catalog, batch, neg, multi>>

\* multi: one item of the dict comprehension over all_coins
ResolveScanMulti ==
    /\ resolver.pc = "scan" /\ resolver.variant = "multi"
    /\ resolver.idx <= Len(resolver.coins_list)
    /\ LET coin == resolver.coins_list[resolver.idx] IN
         resolver' = [resolver EXCEPT
                        !.symbol_to_id = Assign(@, Lower(coin.symbol), coin.id),
                        !.idx = @ + 1]
    /\ UNCHANGED <<http, catalog, batch, neg, multi>>

ResolveDone ==
    /\ resolver.pc = "scan"
    /\ resolver.idx > Len(resolver.coins_list)
    /\ resolver' = [resolver EXCEPT !.pc = "done"]
    /\ UNCHANGED <<http, catalog, batch, neg, multi>>

\* The identifier a requested ticker resolves to: symbol_to_id.get(s.lower())
ResolvedId(t) == resolver.symbol_to_id[Lower(t)]

ResolverNext ==
    \/ ResolveScanNegative
    \/ ResolveScanMulti
    \/ ResolveDone

InitResolver ==
    /\ ResolverInit
    /\ http = Idle /\ catalog = Idle /\ batch = Idle /\ neg = Idle /\ multi = Idle

SpecResolver == InitResolver /\ [][ResolverNext]_vars

\* Positions of the directory entries whose ticker equals t, ignoring case
Matches(t) ==
    {i \in 1..Len(resolver.coins_list) : Lower(resolver.coins_list[i].symbol) = Lower(t)}

SetMin(S) == CHOOSE x \in S : \A y \in S : x <= y
SetMax(S) == CHOOSE x \in S : \A y \in S : x >= y

NumSyms == 2

\* The USDT pairs of a run, in exchange order
Symbols == <<"AAAUSDT", "BBBUSDT", "CCCUSDT", "DDDUSDT">>
SymbolIdx == 1..NumSyms

\* symbol[:-4] / symbol.replace('USDT', '')
StripUSDT(symbol) ==
    CASE symbol = "AAAUSDT" -> "AAA"
      [] symbol = "BBBUSDT" -> "BBB"
      [] symbol = "CCCUSDT" -> "CCC"
      [] symbol = "DDDUSDT" -> "DDD"

\* The fundingRate field of a funding-history item or ticker: the key may be
\* missing, hold text that float() rejects (""), or hold a number.  "none"
\* marks an instrument for which the exchange returned no item at all.
Rates == {-15, -2, 3}
Field(kind, value) == [kind |-> kind, value |-> value]
NoQuote == Field("none", 0)
FundingFields ==
    {Field("missing", 0), Field("text", 0)} \cup {Field("number", r) : r \in Rates}

\* float(item.get("fundingRate", 0)): the value, or an exception
FloatRaises(f) == f.kind = "text"
FloatOf(f) == IF f.kind = "number" THEN f.value ELSE 0

\* A base asset's entry in the market-cap mapping: absent, or present with
\* market_cap None/0 (unknown) or a positive capitalization
CapEntries ==
    {[present |-> FALSE, market_cap |-> 0]} \cup
    {[present |-> TRUE, market_cap |-> c] : c \in {0, 2, 3}}

MinCaps == {1, 3}
Tops == {-1, 0, 1, 5}

\* float('inf'), above every capitalization
Infinity == 1000000

\* seq[:top] of Python: a negative top counts from the end
Truncate(seq, top) ==
    IF top >= 0 THEN SubSeq(seq, 1, Min(top, Len(seq)))
    ELSE SubSeq(seq, 1, IF Len(seq) + top > 0 THEN Len(seq) + top ELSE 0)

\* Insert e after the last element whose key is <= (ascending) or >=
\* (descending) the key of e: one step of a stable sort
RECURSIVE InsertByRate(_, _, _)
InsertByRate(sorted, e, descending) ==
    IF sorted = <<>> THEN <<e>>
    ELSE LET last == sorted[Len(sorted)]
             before == IF descending THEN last.fundingRate >= e.fundingRate
                       ELSE last.fundingRate <= e.fundingRate
         IN  IF before THEN Append(sorted, e)
             ELSE Append(InsertByRate(SubSeq(sorted, 1, Len(sorted) - 1), e, descending),
                         last)

\* sorted(seq, key=fundingRate, reverse=descending): stable in both directions
RECURSIVE SortByRate(_, _)
SortByRate(seq, descending) ==
    IF seq = <<>> THEN <<>>
    ELSE InsertByRate(SortByRate(SubSeq(seq, 1, Len(seq) - 1), descending),
                      seq[Len(seq)], descending)

IsSortedAscending(seq) ==
    \A i \in 1..(Len(seq) - 1) : seq[i].fundingRate <= seq[i + 1].fundingRate
IsSortedDescending(seq) ==
    \A i \in 1..(Len(seq) - 1) : seq[i].fundingRate >= seq[i + 1].fundingRate
IsPrefix(p, seq) == Len(p) <= Len(seq) /\ p = SubSeq(seq, 1, Len(p))

\* The instruments the exchange returned an item for, in exchange order
RECURSIVE Quoted(_, _)
Quoted(quotes, n) ==
    IF n = 0 THEN <<>>
    ELSE IF quotes[n] = NoQuote THEN Quoted(quotes, n - 1)
         ELSE Append(Quoted(quotes, n - 1),
                     [symbol |-> Symbols[n], fundingRate |-> quotes[n]])

QuoteMaps == [SymbolIdx -> FundingFields \cup {NoQuote}]
Bases == {StripUSDT(Symbols[i]) : i \in SymbolIdx}

(***************************************************************************)
(* multi: main                                                             *)
(***************************************************************************)
\* meta = cg_metadata.get(base, {"name": "N/A", "mcap": 0}); meta['mcap']
MultiMcap(cg_metadata, base) ==
    IF cg_metadata[base].present THEN cg_metadata[base].market_cap ELSE 0

\* `if meta['mcap'] < args.min_cap: continue`
MultiExcluded(mcap, min_cap) == mcap < min_cap

\* The loop of lines 98-114 over usdt_pairs[1..n]: the list built, or the
\* exception float() raises on an instrument that passed the filter
RECURSIVE MultiProcessed(_, _, _, _)
MultiProcessed(tickers, n, cg_metadata, min_cap) ==
    IF n = 0 THEN [raised |-> FALSE, list |-> <<>>]
    ELSE LET sofar == MultiProcessed(tickers, n - 1, cg_metadata, min_cap)
             t == tickers[n]
             mcap == MultiMcap(cg_metadata, StripUSDT(t.symbol))
         IN  IF sofar.raised \/ MultiExcluded(mcap, min_cap) THEN sofar
             ELSE IF FloatRaises(t.fundingRate) THEN [raised |-> TRUE, list |-> <<>>]
             ELSE [raised |-> FALSE,
                   list |-> Append(sofar.list,
                                   [symbol |-> t.symbol,
                                    fundingRate |-> FloatOf(t.fundingRate),
                                    marketCapUSD |-> mcap])]

MultiInit ==
    \E q \in QuoteMaps : \E caps \in [Bases -> CapEntries] :
      \E f \in MinCaps : \E top \in Tops :
        multi = [pc |-> "process", tickers |-> Quoted(q, NumSyms), cg_metadata |-> caps,
                 min_cap |-> f, top |-> top, processed_list |-> <<>>,
                 pos_funding |-> <<>>, neg_funding |-> <<>>,
                 pos_out |-> <<>>, neg_out |-> <<>>]

\* Lines 97-114: join, filter by market cap, convert
MultiProcess ==
    /\ multi.pc = "process"
    /\ LET r == MultiProcessed(multi.tickers, Len(multi.tickers), multi.cg_metadata,
                               multi.min_cap)
       IN  multi' = [multi EXCEPT !.processed_list = r.list,
                                  !.pc = IF r.raised THEN "aborted" ELSE "sort"]
    /\ UNCHANGED <<http, catalog, batch, resolver, neg>>

\* Lines 116-124: both sorts and the two tables pos_funding[:top], neg_funding[:top]
MultiSortAndDisplay ==
    /\ multi.pc = "sort"
    /\ LET pos == SortByRate(multi.processed_list, TRUE)
           ngt == SortByRate(multi.processed_list, FALSE)
       IN  multi' = [multi EXCEPT !.pos_funding = pos, !.neg_funding = ngt,
                                  !.pos_out = Truncate(pos, multi.top),
                                  !.neg_out = Truncate(ngt, multi.top),
                                  !.pc = "done"]
    /\ UNCHANGED <<http, catalog, batch, resolver, neg>>

MultiNext ==
    \/ MultiProcess
    \/ MultiSortAndDisplay

InitMulti ==
    /\ MultiInit
    /\ http = Idle /\ catalog = Idle /\ batch = Idle /\ resolver = Idle /\ neg = Idle

SpecMulti == InitMulti /\ [][MultiNext]_vars

SymbolsOf(seq) == {seq[i].symbol : i \in 1..Len(seq)}

\* A base asset's resolved market cap is known: it is in the market-cap
\* mapping with a capitalization other than zero/None
CapKnown(caps, base) == caps[base].present /\ caps[base].market_cap # 0

\* C1: with the filter enabled and floor F, an instrument that has a funding
\* quote is left out on capitalization grounds exactly when its market cap is
\* known and strictly below F; an unknown cap is included.
C1_ExcludedIffKnownBelowFloor ==
    multi.pc \in {"sort", "done"} =>
      \A i \in 1..Len(multi.tickers) :
         LET t == multi.tickers[i]
             base == StripUSDT(t.symbol)
         IN  (t.symbol \notin SymbolsOf(multi.processed_list))
               <=> (CapKnown(multi.cg_metadata, base)
                      /\ multi.cg_metadata[base].market_cap < multi.min_cap)

\* C2: for every accepted top-N, the most-negative table is sorted ascending,
\* the most-positive table descending, each is a prefix of the fully sorted
\* sequence and each has length min(N, number of qualifying entries).
C2_SortedPrefixOfLengthMinN ==
    multi.pc = "done" =>
      /\ IsSortedAscending(multi.neg_out)
      /\ IsSortedDescending(multi.pos_out)
      /\ IsPrefix(multi.neg_out, multi.neg_funding)
      /\ IsPrefix(multi.pos_out, multi.pos_funding)
      /\ Len(multi.neg_out) = Min(multi.top, Len(multi.processed_list))
      /\ Len(multi.pos_out) = Min(multi.top, Len(multi.processed_list))

\* The tickers whose fundingRate field is missing or not a number
NoRate(tickers) ==
    {tickers[i].symbol : i \in {j \in 1..Len(tickers) :
                                  tickers[j].fundingRate.kind # "number"}}

\* C3: an instrument whose rate field is missing or non-numeric has no rate:
\* it appears in neither ranking, and it does not abort the run.
C3_NoRateNeverRanked ==
    multi.pc # "idle" =>
      /\ multi.pc # "aborted"
      /\ SymbolsOf(multi.pos_out) \cap NoRate(multi.tickers) = {}
      /\ SymbolsOf(multi.neg_out) \cap NoRate(multi.tickers) = {}

\* C7: when the only qualifying instrument has rate -0.0015 and top = 5, the
\* most-negative table is exactly that entry and the most-positive table is
\* empty; no negative rate is ever ranked as most positive.
C7_NegativeOnlyInMostNegative ==
    multi.pc = "done" =>
      /\ \A i \in 1..Len(multi.pos_out) : multi.pos_out[i].fundingRate >= 0
      /\ (multi.top = 5 /\ Len(multi.processed_list) = 1
            /\ multi.processed_list[1].fundingRate = -15)
           => (multi.neg_out = multi.processed_list /\ multi.pos_out = <<>>)

(***************************************************************************)
(* negative: main                                                          *)
(***************************************************************************)
LowerBases == {Lower(b) : b \in Bases}
NoMarketData == [b \in LowerBases |-> [present |-> FALSE, market_cap |-> 0]]

\* Lines 203-207: the symbols of funding_data whose rate is below zero
RECURSIVE NegativeSymbols(_, _)
NegativeSymbols(funding_data, n) ==
    IF n = 0 THEN <<>>
    ELSE IF FloatOf(funding_data[n].fundingRate) < 0
           THEN Append(NegativeSymbols(funding_data, n - 1), funding_data[n].symbol)
           ELSE NegativeSymbols(funding_data, n - 1)

\* funding_data.get(symbol, {}).get("fundingRate", 0) as a field
FundingFieldOf(funding_data, symbol) ==
    LET hits == {i \in 1..Len(funding_data) : funding_data[i].symbol = symbol} IN
      IF hits = {} THEN Field("missing", 0)
      ELSE funding_data[CHOOSE i \in hits : TRUE].fundingRate

\* Lines 250-260 with the flag ignored: always the looked-up capitalization
NegMarketCapIgnoringSkip(skip_market_cap, market_cap_data, base_coin) ==
    IF market_cap_data[Lower(base_coin)].present
      THEN market_cap_data[Lower(base_coin)].market_cap ELSE 0

\* Lines 250-260: market_cap_data.get(base.lower(), {}).get("market_cap", 0) or 0,
\* or float('inf') when the filter is skipped
NegMarketCap(skip_market_cap, market_cap_data, base_coin) ==
    IF ~skip_market_cap
      THEN IF market_cap_data[Lower(base_coin)].present
             THEN market_cap_data[Lower(base_coin)].market_cap ELSE 0
      ELSE Infinity

\* `if market_cap and market_cap < args.min_cap: continue`, reached only when
\* the filter is not skipped
NegExcluded(skip_market_cap, market_cap, min_cap) ==
    ~skip_market_cap /\ market_cap # 0 /\ market_cap < min_cap

\* The loop of lines 239-270 over negative_symbols[1..n]
RECURSIVE NegCompiled(_, _, _, _, _, _)
NegCompiled(negative_symbols, n, funding_data, market_cap_data, skip_market_cap, min_cap) ==
    IF n = 0 THEN <<>>
    ELSE LET sofar == NegCompiled(negative_symbols, n - 1, funding_data, market_cap_data,
                                  skip_market_cap, min_cap)
             symbol == negative_symbols[n]
             base_coin == Upper(StripUSDT(symbol))
             market_cap == NegMarketCap(skip_market_cap, market_cap_data, base_coin)
         IN  IF NegExcluded(skip_market_cap, market_cap, min_cap) THEN sofar
             ELSE Append(sofar,
                         [symbol |-> symbol,
                          fundingRate |-> FloatOf(FundingFieldOf(funding_data, symbol)),
                          marketCapUSD |-> market_cap])

NegInit ==
    \E q \in QuoteMaps : \E caps \in [LowerBases -> CapEntries] :
      \E f \in MinCaps : \E top \in Tops : \E skip \in BOOLEAN :
        neg = [pc |-> "filter_negative", funding_data |-> Quoted(q, NumSyms),
               provider |-> caps, min_cap |-> f, top |-> top, skip_market_cap |-> skip,
               negative_symbols |-> <<>>, market_cap_data |-> NoMarketData,
               compiled |-> <<>>, results |-> <<>>]

\* Step 3 (lines 202-213): float() raises on a non-numeric rate and the
\* exception ends main(); no negative rate ends the run without a table
NegFilterNegative ==
    /\ neg.pc = "filter_negative"
    /\ IF \E i \in 1..Len(neg.funding_data) : FloatRaises(neg.funding_data[i].fundingRate)
         THEN neg' = [neg EXCEPT !.pc = "aborted"]
         ELSE LET ns == NegativeSymbols(neg.funding_data, Len(neg.funding_data)) IN
                neg' = [neg EXCEPT !.negative_symbols = ns,
                                   !.pc = IF ns = <<>> THEN "no_negative"
                                          ELSE "market_cap"]
    /\ UNCHANGED <<http, catalog, batch, resolver, multi>>

\* Step 6 (lines 228-234): the market-cap fetch happens only without the flag
NegGetMarketCaps ==
    /\ neg.pc = "market_cap"
    /\ neg' = [neg EXCEPT !.market_cap_data = IF ~neg.skip_market_cap THEN neg.provider
                                              ELSE NoMarketData,
                          !.pc = "compile"]
    /\ UNCHANGED <<http, catalog, batch, resolver, multi>>

\* Step 7 (lines 236-270)
NegCompile ==
    /\ neg.pc = "compile"
    /\ LET r == NegCompiled(neg.negative_symbols, Len(neg.negative_symbols),
                            neg.funding_data, neg.market_cap_data,
                            neg.skip_market_cap, neg.min_cap)
       IN  neg' = [neg EXCEPT !.compiled = r, !.results = r, !.pc = "sort"]
    /\ UNCHANGED <<http, catalog, batch, resolver, multi>>

\* Step 8 (lines 272-276): results.sort(...); results = results[:args.top]
NegSortAndTruncate ==
    /\ neg.pc = "sort"
    /\ neg' = [neg EXCEPT !.results = Truncate(SortByRate(@, FALSE), neg.top),
                          !.pc = "done"]
    /\ UNCHANGED <<http, catalog, batch, resolver, multi>>

NegNext ==
    \/ NegFilterNegative
    \/ NegGetMarketCaps
    \/ NegCompile
    \/ NegSortAndTruncate

InitNeg ==
    /\ NegInit
    /\ http = Idle /\ catalog = Idle /\ batch = Idle /\ resolver = Idle /\ multi = Idle

SpecNeg == InitNeg /\ [][NegNext]_vars

\* C4: with --skip-market-cap no market-cap data reaches the output: every
\* instrument that reaches the reconciliation step is emitted, in order, with
\* the sentinel float('inf') as its market cap, whatever the provider holds
\* and whatever the floor is.
C4_SkipEmitsAllWithSentinel ==
    (neg.pc \in {"sort", "done"} /\ neg.skip_market_cap) =>
      /\ neg.market_cap_data = NoMarketData
      /\ Len(neg.compiled) = Len(neg.negative_symbols)
      /\ \A i \in 1..Len(neg.compiled) :
            /\ neg.compiled[i].symbol = neg.negative_symbols[i]
            /\ neg.compiled[i].marketCapUSD = Infinity
      /\ \A i \in 1..Len(neg.results) : neg.results[i].marketCapUSD = Infinity

\* The flag is set, the provider knows a capitalization below the floor for
\* an instrument, and that instrument is in the table with the sentinel
C4_Witness ==
    /\ neg.pc = "done" /\ neg.skip_market_cap
    /\ \E i \in 1..Len(neg.results) :
         LET b == Lower(StripUSDT(neg.results[i].symbol)) IN
           /\ neg.provider[b].present
           /\ neg.provider[b].market_cap # 0
           /\ neg.provider[b].market_cap < neg.min_cap
           /\ neg.results[i].marketCapUSD = Infinity

====
